---- MODULE Spec2Model ----
(***************************************************************************)
(* oidcfinder: the batch run of processFile (main.go).  One main           *)
(* goroutine fills domainChan, starts `parallel` workers and a goroutine   *)
(* that closes resultChan after wg.Wait(), then prints what arrives on     *)
(* resultChan.  Each worker loops over domainChan: SELECT under dbMutex,   *)
(* HTTP probe, INSERT .. ON CONFLICT under dbMutex, append to the output   *)
(* file under outMutex, send on resultChan.                                *)
(*                                                                         *)
(* A WorkItem is identified by its position in `domains`; the string the   *)
(* channel carries is domains[i].                                          *)
(***************************************************************************)
EXTENDS Integers, Sequences, FiniteSets, TLC

\* Bounds of the model.
MaxLen == 2          \* longest input list
MaxP == 2            \* largest -parallel value
MaxFaults == 1       \* most store or file failures injected in one run

Domains == {"a.example", "b.example"}
OutPath == "out.txt"
\* The output file is appended to, never truncated: it starts with an old line.
OldLine == "https://old.example/.well-known/openid-configuration\n"

\* The input lists: every list of at most MaxLen domains, duplicates allowed.
\* The two names are interchangeable, so a non-empty list starts with the first.
Inputs ==
    { l \in UNION { [1..n -> Domains] : n \in 0..MaxLen } :
        l = <<>> \/ l[1] = "a.example" }

\* What the network can do to one GET: the deadline passes, the transport
\* fails before a response, or a response arrives with a status and a
\* Content-Type header (kept as the list of its parts).
Responses ==
    { [kind |-> "deadline",  status |-> 0,   ctype |-> <<>>],
      [kind |-> "transport", status |-> 0,   ctype |-> <<>>],
      [kind |-> "response",  status |-> 200, ctype |-> <<"application/json", "charset=utf-8">>],
      [kind |-> "response",  status |-> 200, ctype |-> <<"text/html">>],
      [kind |-> "response",  status |-> 404, ctype |-> <<"application/json">>] }

VARIABLES
    domains,      \* processFile: the domains read from the file
    parallel,     \* -parallel
    outFile,      \* -out ("" when not given)
    store,        \* table domains: name -> has_oidc
    file,         \* lines of the output file
    domainChan,   \* buffered channel of WorkItems
    domainClosed, \* close(domainChan) done
    resultChan,   \* buffered channel of domainResult
    resultClosed, \* close(resultChan) done
    dbMutex,      \* 0 = free, w = held by worker w
    outMutex,     \* 0 = free, w = held by worker w
    wg,           \* sync.WaitGroup counter
    mpc,          \* position of processFile
    idx,          \* loop index of processFile (enqueue loop, spawn loop)
    cpc,          \* position of the goroutine that closes resultChan
    pc,           \* position of each worker
    loc,          \* locals of each worker: item, err, exists, result
    stdout,       \* lines printed with fmt.Printf
    logged,       \* messages written with log.Printf
    hist,         \* per WorkItem: what has been done to it (history)
    lastProbe,    \* per domain: item of the most recently completed probe, 0 if none
    lastUpsert,   \* per domain: item of the most recently executed upsert, 0 if none
    panicked,     \* a send on the closed resultChan happened
    faults,       \* number of store and file failures so far
    store0,       \* the store when the run started
    file0,        \* the output file when the run started
    probe         \* one call of testOIDCWithTimeout: its arguments and result

vars == << domains, parallel, outFile, store, file, domainChan, domainClosed,
           resultChan, resultClosed, dbMutex, outMutex, wg, mpc, idx, cpc, pc,
           loc, stdout, logged, hist, lastProbe, lastUpsert, panicked,
           faults, store0, file0, probe >>

config  == << domains, parallel, outFile, store0, file0, probe >>
mainVars == << mpc, idx >>
ghost   == << hist, lastProbe, lastUpsert, panicked, faults >>

Workers == 1..MaxP
Items == 1..Len(domains)
Name(i) == domains[i]

\* ---------------------------------------------------------------- helpers

Has(s, d) == d \in DOMAIN s

\* SELECT has_oidc FROM domains WHERE name = ? ... Scan(&exists):
\* err is non-nil when no row matches or when the store fails.
QueryRowMutant(s, d, storeFails) ==
    IF storeFails \/ ~Has(s, d) \/ ~s[d]
      THEN [err |-> TRUE, exists |-> FALSE]
      ELSE [err |-> FALSE, exists |-> s[d]]
QueryRow(s, d, storeFails) ==
    IF storeFails \/ ~Has(s, d)
      THEN [err |-> TRUE, exists |-> FALSE]
      ELSE [err |-> FALSE, exists |-> s[d]]

\* INSERT .. ON CONFLICT(name) DO UPDATE SET has_oidc = excluded.has_oidc
UpsertMutant(s, d, v) ==
    IF Has(s, d) THEN s ELSE [x \in DOMAIN s \cup {d} |-> IF x = d THEN v ELSE s[x]]
UpsertReplaceMutant(s, d, v) ==
    [x \in {d} |-> v]
Upsert(s, d, v) ==
    [x \in DOMAIN s \cup {d} |-> IF x = d THEN v ELSE s[x]]

ProbeURLMutant(domain) == "http://" \o domain \o "/.well-known/openid-configuration"
ProbeURL(domain) == "https://" \o domain \o "/.well-known/openid-configuration"

\* strings.Contains(ct, "application/json") on the header's parts
ContainsJSON(ct) == \E k \in 1..Len(ct) : ct[k] = "application/json"

\* testOIDCWithTimeout: (url, hasOIDC, timedOut) for what the network did
testOIDCWithTimeoutMutant(domain, r) ==
    IF r.kind = "deadline" \/ r.kind = "transport"
      THEN [oidcURL |-> "", hasOIDC |-> FALSE, timedOut |-> FALSE]
    ELSE IF r.status = 200 /\ ContainsJSON(r.ctype)
      THEN [oidcURL |-> ProbeURL(domain), hasOIDC |-> TRUE, timedOut |-> FALSE]
    ELSE [oidcURL |-> "", hasOIDC |-> FALSE, timedOut |-> FALSE]
testOIDCWithTimeoutOrMutant(domain, r) ==
    IF r.kind = "deadline"
      THEN [oidcURL |-> "", hasOIDC |-> FALSE, timedOut |-> TRUE]
    ELSE IF r.kind = "transport"
      THEN [oidcURL |-> "", hasOIDC |-> FALSE, timedOut |-> FALSE]
    ELSE IF r.status = 200 \/ ContainsJSON(r.ctype)
      THEN [oidcURL |-> ProbeURL(domain), hasOIDC |-> TRUE, timedOut |-> FALSE]
    ELSE [oidcURL |-> "", hasOIDC |-> FALSE, timedOut |-> FALSE]
testOIDCWithTimeout(domain, r) ==
    IF r.kind = "deadline"
      THEN [oidcURL |-> "", hasOIDC |-> FALSE, timedOut |-> TRUE]
    ELSE IF r.kind = "transport"
      THEN [oidcURL |-> "", hasOIDC |-> FALSE, timedOut |-> FALSE]
    ELSE IF r.status = 200 /\ ContainsJSON(r.ctype)
      THEN [oidcURL |-> ProbeURL(domain), hasOIDC |-> TRUE, timedOut |-> FALSE]
    ELSE [oidcURL |-> "", hasOIDC |-> FALSE, timedOut |-> FALSE]

\* The spec's classification of what the network did.
Classify(r) ==
    IF r.kind = "deadline" THEN "TimedOut"
    ELSE IF r.kind = "transport" THEN "TransportError"
    ELSE IF r.status = 200 /\ ContainsJSON(r.ctype) THEN "Found"
    ELSE "NotFound"

\* No call of testOIDCWithTimeout made on its own.
NoProbe == [domain |-> "", resp |-> [kind |-> "none", status |-> 0, ctype |-> <<>>],
            called |-> FALSE, oidcURL |-> "", hasOIDC |-> FALSE, timedOut |-> FALSE]

NoResult == [domain |-> "", hasOIDC |-> FALSE, oidcURL |-> "", timedOut |-> FALSE]
NoLoc == [item |-> 0, err |-> FALSE, exists |-> FALSE, result |-> NoResult]
NoHist == [enq |-> 0, deq |-> 0, lookup |-> "none", sawRecord |-> FALSE,
           class |-> "none", upsert |-> "none", append |-> "none", pushed |-> 0]

\* The line the Reporter prints for a result.
ReportLineMutant(result) ==
    IF result.hasOIDC THEN [domain |-> result.domain, text |-> "OIDC endpoint found"]
    ELSE [domain |-> result.domain, text |-> "no OIDC endpoint"]
ReportLine(result) ==
    IF result.timedOut THEN [domain |-> result.domain, text |-> "request timed out (skipped)"]
    ELSE IF result.hasOIDC THEN [domain |-> result.domain, text |-> "OIDC endpoint found"]
    ELSE [domain |-> result.domain, text |-> "no OIDC endpoint"]

KnownLine(domain, exists) ==
    [domain |-> domain,
     text |-> IF exists THEN "already known (has_oidc=true)"
                        ELSE "already known (has_oidc=false)"]

\* ------------------------------------------------------------------- Init

Init ==
    /\ domains \in Inputs
    /\ parallel \in 1..MaxP
    /\ outFile \in {"", OutPath}
    /\ store \in UNION { [S -> BOOLEAN] : S \in SUBSET Domains }
    /\ file = (IF outFile = "" THEN <<>> ELSE <<OldLine>>)
    /\ store0 = store
    /\ file0 = file
    /\ domainChan = <<>>
    /\ domainClosed = FALSE
    /\ resultChan = <<>>
    /\ resultClosed = FALSE
    /\ dbMutex = 0
    /\ outMutex = 0
    /\ wg = 0
    /\ mpc = "enqueue"
    /\ idx = 1
    /\ cpc = "idle"
    /\ pc = [w \in Workers |-> "idle"]
    /\ loc = [w \in Workers |-> NoLoc]
    /\ stdout = <<>>
    /\ logged = {}
    /\ hist = [i \in 1..Len(domains) |-> NoHist]
    /\ lastProbe = [d \in Domains |-> 0]
    /\ lastUpsert = [d \in Domains |-> 0]
    /\ panicked = FALSE
    /\ faults = 0
    /\ probe = NoProbe

\* ------------------------------------------------------------ processFile

\* for _, domain := range domains { domainChan <- domain }: one send; it
\* blocks while the buffer, of capacity len(domains), is full
EnqueueMutant ==
    /\ mpc = "enqueue"
    /\ idx <= Len(domains)
    /\ Len(domainChan) < 0
    /\ domainChan' = Append(domainChan, idx)
    /\ idx' = idx + 1
    /\ hist' = [hist EXCEPT ![idx].enq = @ + 1]
    /\ UNCHANGED << config, store, file, domainClosed, resultChan, resultClosed,
                    dbMutex, outMutex, wg, mpc, cpc, pc, loc, stdout, logged,
                    lastProbe, lastUpsert, panicked, faults >>
Enqueue ==
    /\ mpc = "enqueue"
    /\ idx <= Len(domains)
    /\ Len(domainChan) < Len(domains)
    /\ domainChan' = Append(domainChan, idx)
    /\ idx' = idx + 1
    /\ hist' = [hist EXCEPT ![idx].enq = @ + 1]
    /\ UNCHANGED << config, store, file, domainClosed, resultChan, resultClosed,
                    dbMutex, outMutex, wg, mpc, cpc, pc, loc, stdout, logged,
                    lastProbe, lastUpsert, panicked, faults >>

\* close(domainChan), after the last send
CloseDomainChan ==
    /\ mpc = "enqueue"
    /\ idx > Len(domains)
    /\ domainClosed' = TRUE
    /\ mpc' = "spawn"
    /\ idx' = 0
    /\ UNCHANGED << config, store, file, domainChan, resultChan, resultClosed,
                    dbMutex, outMutex, wg, cpc, pc, loc, stdout, logged, ghost >>

\* for i := 0; i < parallel; i++ { wg.Add(1); go worker(...) }
Spawn ==
    /\ mpc = "spawn"
    /\ idx < parallel
    /\ wg' = wg + 1
    /\ pc' = [pc EXCEPT ![idx + 1] = "recv"]
    /\ idx' = idx + 1
    /\ UNCHANGED << config, store, file, domainChan, domainClosed, resultChan,
                    resultClosed, dbMutex, outMutex, mpc, cpc, loc, stdout,
                    logged, ghost >>

\* go func() { wg.Wait(); close(resultChan) }()
StartCloser ==
    /\ mpc = "spawn"
    /\ idx >= parallel
    /\ cpc' = "wait"
    /\ mpc' = "report"
    /\ UNCHANGED << config, store, file, domainChan, domainClosed, resultChan,
                    resultClosed, dbMutex, outMutex, wg, idx, pc, loc, stdout,
                    logged, ghost >>

\* wg.Wait() returns when the counter is zero; then close(resultChan)
CloseResultChanMutant ==
    /\ cpc = "wait"
    /\ resultClosed' = TRUE
    /\ cpc' = "done"
    /\ UNCHANGED << config, store, file, domainChan, domainClosed, resultChan,
                    dbMutex, outMutex, wg, mainVars, pc, loc, stdout, logged, ghost >>
CloseResultChan ==
    /\ cpc = "wait"
    /\ wg = 0
    /\ resultClosed' = TRUE
    /\ cpc' = "done"
    /\ UNCHANGED << config, store, file, domainChan, domainClosed, resultChan,
                    dbMutex, outMutex, wg, mainVars, pc, loc, stdout, logged, ghost >>

\* for result := range resultChan { fmt.Printf(...) }: one received result
Report ==
    /\ mpc = "report"
    /\ resultChan # <<>>
    /\ stdout' = Append(stdout, ReportLine(Head(resultChan)))
    /\ resultChan' = Tail(resultChan)
    /\ UNCHANGED << config, store, file, domainChan, domainClosed, resultClosed,
                    dbMutex, outMutex, wg, mainVars, cpc, pc, loc, logged, ghost >>

\* the range loop ends when resultChan is closed and drained
ReportEndMutant ==
    /\ mpc = "report"
    /\ resultChan = <<>>
    /\ mpc' = "done"
    /\ UNCHANGED << config, store, file, domainChan, domainClosed, resultChan,
                    resultClosed, dbMutex, outMutex, wg, idx, cpc, pc, loc,
                    stdout, logged, ghost >>
ReportEnd ==
    /\ mpc = "report"
    /\ resultChan = <<>>
    /\ resultClosed
    /\ mpc' = "done"
    /\ UNCHANGED << config, store, file, domainChan, domainClosed, resultChan,
                    resultClosed, dbMutex, outMutex, wg, idx, cpc, pc, loc,
                    stdout, logged, ghost >>

\* ----------------------------------------------------------------- worker

Item(w) == loc[w].item
Domain(w) == domains[loc[w].item]

\* for domain := range domainChan: the next WorkItem
RecvDomainMutant(w) ==
    /\ pc[w] = "recv"
    /\ domainChan # <<>>
    /\ loc' = [loc EXCEPT ![w] = [NoLoc EXCEPT !.item = domainChan[Len(domainChan)]]]
    /\ domainChan' = SubSeq(domainChan, 1, Len(domainChan) - 1)
    /\ pc' = [pc EXCEPT ![w] = "lockLookup"]
    /\ hist' = [hist EXCEPT ![domainChan[Len(domainChan)]].deq = @ + 1]
    /\ UNCHANGED << config, store, file, domainClosed, resultChan, resultClosed,
                    dbMutex, outMutex, wg, mainVars, cpc, stdout, logged,
                    lastProbe, lastUpsert, panicked, faults >>
RecvDomain(w) ==
    /\ pc[w] = "recv"
    /\ domainChan # <<>>
    /\ loc' = [loc EXCEPT ![w] = [NoLoc EXCEPT !.item = Head(domainChan)]]
    /\ domainChan' = Tail(domainChan)
    /\ pc' = [pc EXCEPT ![w] = "lockLookup"]
    /\ hist' = [hist EXCEPT ![Head(domainChan)].deq = @ + 1]
    /\ UNCHANGED << config, store, file, domainClosed, resultChan, resultClosed,
                    dbMutex, outMutex, wg, mainVars, cpc, stdout, logged,
                    lastProbe, lastUpsert, panicked, faults >>

\* the range loop ends on the closed, drained channel; defer wg.Done()
WorkerExit(w) ==
    /\ pc[w] = "recv"
    /\ domainChan = <<>>
    /\ domainClosed
    /\ wg' = wg - 1
    /\ pc' = [pc EXCEPT ![w] = "done"]
    /\ loc' = [loc EXCEPT ![w] = NoLoc]
    /\ UNCHANGED << config, store, file, domainChan, domainClosed, resultChan,
                    resultClosed, dbMutex, outMutex, mainVars, cpc, stdout,
                    logged, ghost >>

\* dbMutex.Lock() before the SELECT
LockLookupMutant(w) ==
    /\ pc[w] = "lockLookup"
    /\ dbMutex' = w
    /\ pc' = [pc EXCEPT ![w] = "query"]
    /\ UNCHANGED << config, store, file, domainChan, domainClosed, resultChan,
                    resultClosed, outMutex, wg, mainVars, cpc, loc, stdout,
                    logged, ghost >>
LockLookup(w) ==
    /\ pc[w] = "lockLookup"
    /\ dbMutex = 0
    /\ dbMutex' = w
    /\ pc' = [pc EXCEPT ![w] = "query"]
    /\ UNCHANGED << config, store, file, domainChan, domainClosed, resultChan,
                    resultClosed, outMutex, wg, mainVars, cpc, loc, stdout,
                    logged, ghost >>

\* err := db.QueryRow(...).Scan(&exists), where the store may fail;
\* dbMutex.Unlock(); if err == nil { ... continue }
Lookup(w) ==
    /\ pc[w] = "query"
    /\ \E storeFails \in {FALSE} \cup {f \in {TRUE} : faults < MaxFaults} :
         LET r == QueryRow(store, Domain(w), storeFails) IN
           /\ faults' = IF storeFails THEN faults + 1 ELSE faults
           /\ loc' = [loc EXCEPT ![w].err = r.err, ![w].exists = r.exists]
           /\ hist' = [hist EXCEPT ![Item(w)].lookup =
                          IF storeFails THEN "fail"
                          ELSE IF r.err THEN "miss" ELSE "hit"]
           /\ pc' = [pc EXCEPT ![w] = IF r.err THEN "probe" ELSE "known"]
    /\ dbMutex' = 0
    /\ UNCHANGED << config, store, file, domainChan, domainClosed, resultChan,
                    resultClosed, outMutex, wg, mainVars, cpc, stdout,
                    logged, lastProbe, lastUpsert, panicked >>

\* fmt.Printf("%s: already known (has_oidc=%v)\n", domain, exists); continue
AlreadyKnownMutant(w) ==
    /\ pc[w] = "known"
    /\ stdout' = Append(stdout, KnownLine(Domain(w), loc[w].exists))
    /\ pc' = [pc EXCEPT ![w] = "probe"]
    /\ UNCHANGED << config, store, file, domainChan, domainClosed, resultChan,
                    resultClosed, dbMutex, outMutex, wg, mainVars, cpc, loc,
                    logged, ghost >>
AlreadyKnown(w) ==
    /\ pc[w] = "known"
    /\ stdout' = Append(stdout, KnownLine(Domain(w), loc[w].exists))
    /\ pc' = [pc EXCEPT ![w] = "recv"]
    /\ UNCHANGED << config, store, file, domainChan, domainClosed, resultChan,
                    resultClosed, dbMutex, outMutex, wg, mainVars, cpc, loc,
                    logged, ghost >>

\* oidcURL, hasOIDC, timedOut := testOIDCWithTimeout(domain, timeoutSecs);
\* result := domainResult{...}; if !timedOut
ProbeMutant(w) ==
    /\ pc[w] = "probe"
    /\ \E r \in Responses :
         LET t == testOIDCWithTimeout(Domain(w), r) IN
           /\ loc' = [loc EXCEPT ![w].result =
                         [domain |-> Domain(w), hasOIDC |-> t.hasOIDC,
                          oidcURL |-> t.oidcURL, timedOut |-> t.timedOut]]
           /\ logged' = IF t.timedOut
                          THEN logged \cup {[msg |-> "Timeout testing", domain |-> Domain(w)]}
                          ELSE logged
           /\ hist' = [hist EXCEPT ![Item(w)].class = Classify(r),
                                   ![Item(w)].sawRecord = Has(store, Domain(w))]
           /\ pc' = [pc EXCEPT ![w] = IF t.hasOIDC THEN "lockUpsert" ELSE "push"]
    /\ lastProbe' = [lastProbe EXCEPT ![Domain(w)] = Item(w)]
    /\ UNCHANGED << config, store, file, domainChan, domainClosed, resultChan,
                    resultClosed, dbMutex, outMutex, wg, mainVars, cpc, stdout,
                    lastUpsert, panicked, faults >>
Probe(w) ==
    /\ pc[w] = "probe"
    /\ \E r \in Responses :
         LET t == testOIDCWithTimeout(Domain(w), r) IN
           /\ loc' = [loc EXCEPT ![w].result =
                         [domain |-> Domain(w), hasOIDC |-> t.hasOIDC,
                          oidcURL |-> t.oidcURL, timedOut |-> t.timedOut]]
           /\ logged' = IF t.timedOut
                          THEN logged \cup {[msg |-> "Timeout testing", domain |-> Domain(w)]}
                          ELSE logged
           /\ hist' = [hist EXCEPT ![Item(w)].class = Classify(r),
                                   ![Item(w)].sawRecord = Has(store, Domain(w))]
           /\ pc' = [pc EXCEPT ![w] = IF t.timedOut THEN "push" ELSE "lockUpsert"]
    /\ lastProbe' = [lastProbe EXCEPT ![Domain(w)] = Item(w)]
    /\ UNCHANGED << config, store, file, domainChan, domainClosed, resultChan,
                    resultClosed, dbMutex, outMutex, wg, mainVars, cpc, stdout,
                    lastUpsert, panicked, faults >>

\* dbMutex.Lock() before the INSERT
LockUpsert(w) ==
    /\ pc[w] = "lockUpsert"
    /\ dbMutex = 0
    /\ dbMutex' = w
    /\ pc' = [pc EXCEPT ![w] = "exec"]
    /\ UNCHANGED << config, store, file, domainChan, domainClosed, resultChan,
                    resultClosed, outMutex, wg, mainVars, cpc, loc, stdout,
                    logged, ghost >>

\* _, err = db.Exec(INSERT .. ON CONFLICT ..), where the store may fail;
\* dbMutex.Unlock(); if err != nil { log.Printf }; if hasOIDC && outFile != ""
ExecUpsertMutant(w) ==
    /\ pc[w] = "exec"
    /\ \/ /\ store' = Upsert(store, Domain(w), loc[w].result.hasOIDC)
          /\ loc' = [loc EXCEPT ![w].err = FALSE]
          /\ hist' = [hist EXCEPT ![Item(w)].upsert = "ok"]
          /\ lastUpsert' = [lastUpsert EXCEPT ![Domain(w)] = Item(w)]
          /\ logged' = logged
          /\ faults' = faults
          /\ dbMutex' = 0
       \/ /\ faults < MaxFaults
          /\ faults' = faults + 1
          /\ store' = store
          /\ loc' = [loc EXCEPT ![w].err = TRUE]
          /\ hist' = [hist EXCEPT ![Item(w)].upsert = "fail"]
          /\ lastUpsert' = lastUpsert
          /\ logged' = logged \cup {[msg |-> "Failed to insert", domain |-> Domain(w)]}
          /\ dbMutex' = dbMutex
    /\ pc' = [pc EXCEPT ![w] =
                 IF loc[w].result.hasOIDC /\ outFile # "" THEN "lockOut" ELSE "push"]
    /\ UNCHANGED << config, file, domainChan, domainClosed, resultChan,
                    resultClosed, outMutex, wg, mainVars, cpc, stdout,
                    lastProbe, panicked >>
ExecUpsertSkipMutant(w) ==
    /\ pc[w] = "exec"
    /\ \/ /\ store' = Upsert(store, Domain(w), loc[w].result.hasOIDC)
          /\ loc' = [loc EXCEPT ![w].err = FALSE]
          /\ hist' = [hist EXCEPT ![Item(w)].upsert = "ok"]
          /\ lastUpsert' = [lastUpsert EXCEPT ![Domain(w)] = Item(w)]
          /\ logged' = logged
          /\ faults' = faults
          /\ pc' = [pc EXCEPT ![w] =
                       IF loc[w].result.hasOIDC /\ outFile # "" THEN "lockOut" ELSE "push"]
       \/ /\ faults < MaxFaults
          /\ faults' = faults + 1
          /\ store' = store
          /\ loc' = [loc EXCEPT ![w].err = TRUE]
          /\ hist' = [hist EXCEPT ![Item(w)].upsert = "fail"]
          /\ lastUpsert' = lastUpsert
          /\ logged' = logged \cup {[msg |-> "Failed to insert", domain |-> Domain(w)]}
          /\ pc' = [pc EXCEPT ![w] = "recv"]
    /\ dbMutex' = 0
    /\ UNCHANGED << config, file, domainChan, domainClosed, resultChan,
                    resultClosed, outMutex, wg, mainVars, cpc, stdout,
                    lastProbe, panicked >>
ExecUpsert(w) ==
    /\ pc[w] = "exec"
    /\ \/ /\ store' = Upsert(store, Domain(w), loc[w].result.hasOIDC)
          /\ loc' = [loc EXCEPT ![w].err = FALSE]
          /\ hist' = [hist EXCEPT ![Item(w)].upsert = "ok"]
          /\ lastUpsert' = [lastUpsert EXCEPT ![Domain(w)] = Item(w)]
          /\ logged' = logged
          /\ faults' = faults
       \/ /\ faults < MaxFaults
          /\ faults' = faults + 1
          /\ store' = store
          /\ loc' = [loc EXCEPT ![w].err = TRUE]
          /\ hist' = [hist EXCEPT ![Item(w)].upsert = "fail"]
          /\ lastUpsert' = lastUpsert
          /\ logged' = logged \cup {[msg |-> "Failed to insert", domain |-> Domain(w)]}
    /\ dbMutex' = 0
    /\ pc' = [pc EXCEPT ![w] =
                 IF loc[w].result.hasOIDC /\ outFile # "" THEN "lockOut" ELSE "push"]
    /\ UNCHANGED << config, file, domainChan, domainClosed, resultChan,
                    resultClosed, outMutex, wg, mainVars, cpc, stdout,
                    lastProbe, panicked >>

\* outMutex.Lock()
LockOut(w) ==
    /\ pc[w] = "lockOut"
    /\ outMutex = 0
    /\ outMutex' = w
    /\ pc' = [pc EXCEPT ![w] = "append"]
    /\ UNCHANGED << config, store, file, domainChan, domainClosed, resultChan,
                    resultClosed, dbMutex, wg, mainVars, cpc, loc, stdout,
                    logged, ghost >>

\* appendToFile(outFile, oidcURL): the line is appended, or OpenFile fails,
\* or WriteString fails; a failure is logged and leaves the file as it was;
\* outMutex.Unlock()
AppendOut(w) ==
    /\ pc[w] = "append"
    /\ \/ /\ file' = Append(file, loc[w].result.oidcURL \o "\n")
          /\ logged' = logged
          /\ hist' = [hist EXCEPT ![Item(w)].append = "ok"]
          /\ faults' = faults
       \/ /\ faults < MaxFaults
          /\ faults' = faults + 1
          /\ file' = file
          /\ logged' = logged \cup {[msg |-> "Failed to open output file", domain |-> outFile]}
          /\ hist' = [hist EXCEPT ![Item(w)].append = "fail"]
       \/ /\ faults < MaxFaults
          /\ faults' = faults + 1
          /\ file' = file
          /\ logged' = logged \cup {[msg |-> "Failed to write to output file", domain |-> outFile]}
          /\ hist' = [hist EXCEPT ![Item(w)].append = "fail"]
    /\ outMutex' = 0
    /\ pc' = [pc EXCEPT ![w] = "push"]
    /\ UNCHANGED << config, store, domainChan, domainClosed, resultChan,
                    resultClosed, dbMutex, wg, mainVars, cpc, loc,
                    stdout, lastProbe, lastUpsert, panicked >>

\* resultChan <- result: blocks while the buffer is full, panics when closed
SendResultMutant(w) ==
    /\ pc[w] = "push"
    /\ Len(resultChan) < Len(domains) - 1
    /\ resultChan' = Append(resultChan, loc[w].result)
    /\ panicked' = (panicked \/ resultClosed)
    /\ hist' = [hist EXCEPT ![Item(w)].pushed = @ + 1]
    /\ pc' = [pc EXCEPT ![w] = "recv"]
    /\ UNCHANGED << config, store, file, domainChan, domainClosed, resultClosed,
                    dbMutex, outMutex, wg, mainVars, cpc, loc, stdout, logged,
                    lastProbe, lastUpsert, faults >>
SendResult(w) ==
    /\ pc[w] = "push"
    /\ Len(resultChan) < Len(domains)
    /\ resultChan' = Append(resultChan, loc[w].result)
    /\ panicked' = (panicked \/ resultClosed)
    /\ hist' = [hist EXCEPT ![Item(w)].pushed = @ + 1]
    /\ pc' = [pc EXCEPT ![w] = "recv"]
    /\ UNCHANGED << config, store, file, domainChan, domainClosed, resultClosed,
                    dbMutex, outMutex, wg, mainVars, cpc, loc, stdout, logged,
                    lastProbe, lastUpsert, faults >>

worker(w) ==
    \/ RecvDomain(w) \/ WorkerExit(w)
    \/ LockLookup(w) \/ Lookup(w) \/ AlreadyKnown(w)
    \/ Probe(w)
    \/ LockUpsert(w) \/ ExecUpsert(w)
    \/ LockOut(w) \/ AppendOut(w)
    \/ SendResult(w)

processFile ==
    \/ Enqueue \/ CloseDomainChan \/ Spawn \/ StartCloser \/ Report \/ ReportEnd

Next ==
    \/ processFile
    \/ CloseResultChan
    \/ \E w \in Workers : worker(w)

Spec == Init /\ [][Next]_vars

\* The Go scheduler runs a goroutine that can take a step.
FairSpec == Spec /\ WF_vars(Next)

\* ------------------------------------------- testOIDCWithTimeout on its own

\* Statuses and Content-Type headers a server can answer with.
Statuses == {200, 204, 301, 404, 500}
ContentTypes ==
    { <<>>,
      <<"application/json">>,
      <<"application/json", "; charset=utf-8">>,
      <<"text/html">>,
      <<"text/html", "; charset=utf-8">>,
      <<"application/problem+json">>,
      <<"multipart/mixed; boundary=x; part=", "application/json">> }
ProbeInputs ==
    { [kind |-> "deadline",  status |-> 0, ctype |-> <<>>],
      [kind |-> "transport", status |-> 0, ctype |-> <<>>] }
    \cup [kind : {"response"}, status : Statuses, ctype : ContentTypes]

\* No batch runs; one domain and one behaviour of the network are given.
ProbeInit ==
    /\ Init
    /\ domains = <<>>
    /\ parallel = 1
    /\ outFile = ""
    /\ store = <<>>

\* The arguments of the call are chosen.
ProbeArgs ==
    /\ probe.domain = ""
    /\ \E d \in Domains, r \in ProbeInputs :
         probe' = [NoProbe EXCEPT !.domain = d, !.resp = r]
    /\ UNCHANGED << domains, parallel, outFile, store, file, domainChan,
                    domainClosed, resultChan, resultClosed, dbMutex, outMutex,
                    wg, mpc, idx, cpc, pc, loc, stdout, logged, ghost, store0,
                    file0 >>

\* oidcURL, hasOIDC, timedOut := testOIDCWithTimeout(domain, timeoutSecs)
ProbeCall ==
    /\ probe.domain # ""
    /\ ~probe.called
    /\ LET t == testOIDCWithTimeout(probe.domain, probe.resp) IN
         probe' = [probe EXCEPT !.called = TRUE, !.oidcURL = t.oidcURL,
                                !.hasOIDC = t.hasOIDC, !.timedOut = t.timedOut]
    /\ UNCHANGED << domains, parallel, outFile, store, file, domainChan,
                    domainClosed, resultChan, resultClosed, dbMutex, outMutex,
                    wg, mpc, idx, cpc, pc, loc, stdout, logged, ghost, store0,
                    file0 >>

ProbeNext == ProbeArgs \/ ProbeCall

ProbeSpec == ProbeInit /\ [][ProbeNext]_vars

Terminated == mpc = "done"

\* ------------------------------------------------------------- properties

Probed(i) == hist[i].class # "none"
Occurrences(d) == { i \in Items : Name(i) = d }
NoFaults == faults = 0

\* C1: in every state of a batch run the store holds no record for a domain
\* whose most recently completed probe in that run was classified TimedOut.
\* Stated for the runs in which no store or file operation fails.
C1_NoRecordAfterTimeout ==
    NoFaults =>
      \A d \in Domains :
        (lastProbe[d] # 0 /\ hist[lastProbe[d]].class = "TimedOut") => ~Has(store, d)

\* C2: a probe of a domain is never issued once the store holds a record for
\* it, and each domain receives at most one GET whose outcome is persisted.
\* Stated for the runs in which no store or file operation fails.
C2_NoProbeOfKnownDomain ==
    NoFaults =>
      /\ \A i \in Items : ~hist[i].sawRecord
      /\ \A d \in Domains :
           Cardinality({ i \in Occurrences(d) : hist[i].upsert = "ok" }) <= 1

AllKnownAtStart == \A i \in Items : Has(store0, Name(i))
NothingDone ==
    /\ \A i \in Items : ~Probed(i) /\ hist[i].upsert = "none" /\ hist[i].pushed = 0
    /\ resultChan = <<>>
    /\ store = store0

StableNetwork ==
    \A i, j \in Items :
      (Name(i) = Name(j) /\ Probed(i) /\ Probed(j)) => hist[i].class = hist[j].class

\* The classification the network gave to domain d in this run.
ClassOf(d) ==
    IF \E i \in Occurrences(d) : Probed(i)
      THEN hist[CHOOSE i \in Occurrences(d) : Probed(i)].class
      ELSE "none"

\* The store a run with parallelism 1 ends with, from store s, over the items
\* k.. of the list, on a network that classifies each domain d as ClassOf(d):
\* an item whose domain has a record is skipped, a time-out leaves no record,
\* any other outcome is recorded.
RECURSIVE SeqRun(_, _)
SeqRun(k, s) ==
    IF k > Len(domains) THEN s
    ELSE LET d == Name(k) IN
         IF d \in DOMAIN s \/ ClassOf(d) = "TimedOut"
           THEN SeqRun(k + 1, s)
           ELSE SeqRun(k + 1, [x \in DOMAIN s \cup {d} |->
                                 IF x = d THEN ClassOf(d) = "Found" ELSE s[x]])

\* C4: from an empty store, on the same (stable) network and without store
\* failures, a run with any parallelism and any interleaving of its workers
\* ends with the store a run with parallelism 1 ends with.
C4_StoreEquivalence ==
    (Terminated /\ store0 = <<>> /\ NoFaults /\ StableNetwork) =>
      /\ \A i \in Items : ClassOf(Name(i)) # "none"
      /\ store = SeqRun(1, <<>>)

C4_Witness ==
    /\ Terminated
    /\ parallel = 2
    /\ store0 = <<>>
    /\ NoFaults
    /\ StableNetwork
    /\ \E i, j \in Items :
         /\ i # j
         /\ Name(i) = Name(j)
         /\ hist[i].upsert = "ok"
         /\ hist[j].upsert = "ok"

\* C5: for a domain with no record before the run, if the run persists a
\* non-timeout outcome for it, a lookup after the run returns exactly the
\* classification of that outcome.  Stated for the runs in which no store or
\* file operation fails.
C5_LookupReturnsPersisted ==
    (Terminated /\ NoFaults) =>
      \A i \in Items :
        (~Has(store0, Name(i)) /\ hist[i].upsert = "ok") =>
          LET r == QueryRow(store, Name(i), FALSE) IN
            ~r.err /\ r.exists = (hist[i].class = "Found")

\* The input lists one domain twice and the store starts empty.
DupScenario == Len(domains) = 2 /\ Name(1) = Name(2) /\ store0 = <<>>

Started == \E w \in Workers : pc[w] # "idle"
AllWorkersDone == \A w \in 1..parallel : pc[w] = "done"

\* No item is enqueued or dequeued twice, and once a worker has started the
\* queue is closed with every item enqueued once.
C7_Safe ==
    /\ \A i \in Items : hist[i].enq <= 1 /\ hist[i].deq <= hist[i].enq
    /\ Started => (domainClosed /\ \A i \in Items : hist[i].enq = 1)

\* C7: every WorkItem is enqueued exactly once before any worker starts
\* consuming, nothing is enqueued afterwards, no item is dequeued twice, and
\* every item is eventually dequeued.
C7_EnqueueOnceDequeueOnce ==
    /\ []C7_Safe
    /\ <>(\A i \in Items : hist[i].deq = 1)

\* Two workers hold one item each, and every item has been dequeued once.
C7_Witness ==
    /\ loc[1].item # 0
    /\ loc[2].item # 0
    /\ loc[1].item # loc[2].item
    /\ \A i \in Items : hist[i].deq = 1

\* The stream is closed only when every worker is done; no send on it closed.
C8_Safe ==
    /\ resultClosed => AllWorkersDone
    /\ ~panicked

\* C8: the result stream is closed only after all workers have finished, no
\* worker sends on the closed stream, and every run reaches the state where
\* all workers are done, the stream is closed and drained and the Reporter
\* loop has ended.
C8_CloseAfterWorkers ==
    /\ []C8_Safe
    /\ <>(Terminated /\ AllWorkersDone /\ resultClosed /\ resultChan = <<>>)

\* A run of two workers that reported two results has ended.
C8_Witness ==
    /\ Terminated
    /\ parallel = 2
    /\ resultClosed
    /\ \A i \in Items : hist[i].pushed = 1
    /\ Len(stdout) = 2

InStore(w) == pc[w] \in {"query", "exec"}

\* C9: a worker that is inside a store operation (the SELECT or the INSERT)
\* holds dbMutex, so no two workers are inside a store operation at once.
C9_StoreUnderLock ==
    /\ \A w \in Workers : InStore(w) => dbMutex = w
    /\ Cardinality({ w \in Workers : InStore(w) }) <= 1

\* One worker is inside the INSERT while the other waits for the lock.
C9_Witness ==
    \E w, v \in Workers :
      /\ pc[w] = "exec"
      /\ pc[v] = "lockLookup"
      /\ dbMutex = w

\* C10: no worker holds both locks or holds a lock during a probe; a lock is
\* held only inside its critical section, so it is released on every path
\* out of it, store and file failures included; no deadlock is reachable; and
\* a worker that needs one lock is not blocked by the holder of the other.
C10_LocksIndependent ==
    /\ \A w \in Workers :
         /\ ~(dbMutex = w /\ outMutex = w)
         /\ pc[w] = "probe" => (dbMutex # w /\ outMutex # w)
         /\ dbMutex = w => InStore(w)
         /\ outMutex = w => pc[w] = "append"
         /\ (pc[w] = "lockOut" /\ outMutex = 0) => ENABLED LockOut(w)
         /\ (pc[w] = "lockLookup" /\ dbMutex = 0) => ENABLED LockLookup(w)
         /\ (pc[w] = "lockUpsert" /\ dbMutex = 0) => ENABLED LockUpsert(w)
    /\ Terminated \/ ENABLED Next

\* The two locks are held by two workers at once, in a run with a failure.
C10_Witness ==
    /\ dbMutex # 0
    /\ outMutex # 0
    /\ dbMutex # outMutex
    /\ faults > 0


\* The canonical probe URL of a domain, and its line in the output artifact.
CanonicalURL(d) == "https://" \o d \o "/.well-known/openid-configuration"
CanonicalLine(d) == CanonicalURL(d) \o "\n"

\* The lines appended to the output file during the run.
Appended == SubSeq(file, Len(file0) + 1, Len(file))

DupFree == \A i, j \in Items : Name(i) = Name(j) => i = j
NoWriteFailure ==
    \A i \in Items : hist[i].upsert # "fail" /\ hist[i].append # "fail"

\* C11: for a duplicate-free list run against an empty store with an output
\* artifact configured and no write failure, the run ends with a record
\* (D, true) for every D probed Found, (D, false) for every D probed NotFound
\* or TransportError, no record for a D probed TimedOut, and the lines
\* appended to the artifact are the canonical URLs of the Found domains, once
\* each; what the file held before is kept.
C11_FinalState ==
    (Terminated /\ DupFree /\ store0 = <<>> /\ outFile # "" /\ NoWriteFailure) =>
      /\ \A i \in Items : Probed(i)
      /\ DOMAIN store = { Name(i) : i \in { j \in Items : hist[j].class # "TimedOut" } }
      /\ \A i \in Items :
           hist[i].class # "TimedOut" => store[Name(i)] = (hist[i].class = "Found")
      /\ Len(file) >= Len(file0)
      /\ SubSeq(file, 1, Len(file0)) = file0
      /\ Len(Appended) = Cardinality({ i \in Items : hist[i].class = "Found" })
      /\ \A i \in Items : hist[i].class = "Found" =>
           \E k \in 1..Len(Appended) : Appended[k] = CanonicalLine(Name(i))

\* The scenario of the claim on two domains: one Found, one TimedOut.
C11_Witness ==
    /\ Terminated
    /\ parallel = 2
    /\ store0 = <<>>
    /\ outFile # ""
    /\ NoWriteFailure
    /\ Len(domains) = 2
    /\ DupFree
    /\ hist[1].class = "Found"
    /\ hist[2].class = "TimedOut"
    /\ store = [d \in {Name(1)} |-> TRUE]
    /\ Appended = <<CanonicalLine(Name(1))>>


\* C12: a completed exchange is classified Found exactly when the status is
\* 200 and the Content-Type header contains application/json; otherwise it is
\* NotFound (no endpoint, not timed out); only a Found outcome carries a URL,
\* and that URL is the canonical probe URL of the domain.
C12_Classification ==
    probe.called =>
      /\ probe.resp.kind = "response" =>
           /\ probe.hasOIDC <=>
                (probe.resp.status = 200 /\ ContainsJSON(probe.resp.ctype))
           /\ ~probe.timedOut
      /\ probe.hasOIDC => probe.resp.kind = "response"
      /\ probe.oidcURL # "" <=> probe.hasOIDC
      /\ probe.hasOIDC => probe.oidcURL = CanonicalURL(probe.domain)

\* Status 200 with an HTML content type was classified NotFound.
C12_Witness ==
    /\ probe.called
    /\ probe.resp.kind = "response"
    /\ probe.resp.status = 200
    /\ ~ContainsJSON(probe.resp.ctype)
    /\ ~probe.hasOIDC
    /\ ~probe.timedOut
    /\ probe.oidcURL = ""

\* The line kind of each class of outcome (README, Output Format).
ExpectedText(class) ==
    CASE class = "Found" -> "OIDC endpoint found"
      [] class \in {"NotFound", "TransportError"} -> "no OIDC endpoint"
      [] class = "TimedOut" -> "request timed out (skipped)"
      [] OTHER -> ""
ReporterTexts ==
    {"OIDC endpoint found", "no OIDC endpoint", "request timed out (skipped)"}

\* How many lines (d, t) stand on standard output, how many outcomes of
\* domain d whose class prints as t were pushed, and the totals.
Printed(d, t) ==
    Cardinality({ k \in 1..Len(stdout) : stdout[k] = [domain |-> d, text |-> t] })
PushedAs(d, t) ==
    Cardinality({ i \in Items : /\ Name(i) = d
                                /\ hist[i].pushed = 1
                                /\ ExpectedText(hist[i].class) = t })
ReporterLines ==
    Cardinality({ k \in 1..Len(stdout) : stdout[k].text \in ReporterTexts })
TotalPushed == Cardinality({ i \in Items : hist[i].pushed >= 1 })

\* C13: the Reporter prints exactly one line for each outcome pushed onto the
\* result stream, of the kind its class determines (Found: endpoint found;
\* NotFound or TransportError: no endpoint; TimedOut: timed out, skipped):
\* the lines printed plus the outcomes still in the stream are the outcomes
\* pushed, no line is printed without its outcome, and at the end of the run
\* every pushed outcome has its line.
C13_OneLinePerOutcome ==
    /\ \A i \in Items : hist[i].pushed <= 1
    /\ ReporterLines + Len(resultChan) = TotalPushed
    /\ \A d \in Domains, t \in ReporterTexts :
         /\ Printed(d, t) <= PushedAs(d, t)
         /\ Terminated => Printed(d, t) = PushedAs(d, t)

\* A Found and a TimedOut outcome were pushed and the run ended with their two lines.
C13_Witness ==
    /\ Terminated /\ Len(domains) = 2 /\ DupFree
    /\ hist[1].class = "Found" /\ hist[1].pushed = 1
    /\ hist[2].class = "TimedOut" /\ hist[2].pushed = 1
    /\ Printed(Name(1), "OIDC endpoint found") = 1
    /\ Printed(Name(2), "request timed out (skipped)") = 1
    /\ Len(stdout) = 2

\* Item i met a failure: its probe timed out or had a transport error, its
\* INSERT failed, or the append of its URL failed.
Failed(i) ==
    \/ hist[i].class \in {"TimedOut", "TransportError"}
    \/ hist[i].upsert = "fail"
    \/ hist[i].append = "fail"

\* Some worker holds item i between its probe and its push.
OnTheWay(i) ==
    \E w \in Workers :
      /\ loc[w].item = i
      /\ pc[w] \in {"lockUpsert", "exec", "lockOut", "append", "push"}

\* The Reporter printed the line of item i.
Reported(i) == Printed(Name(i), ExpectedText(hist[i].class)) >= 1

\* An item that met a failure is pushed or is on its worker's way to the
\* push, and a domain all of whose INSERTs failed has no new record.
C14_Safe ==
    /\ \A i \in Items : Failed(i) => (hist[i].pushed = 1 \/ OnTheWay(i))
    /\ \A d \in Domains :
         (~Has(store0, d) /\ \A i \in Occurrences(d) : hist[i].upsert # "ok")
           => ~Has(store, d)

\* C14: no mid-batch failure stops the run: after a probe timeout, a
\* transport error, a failed store write or a failed write of the output
\* file on an item, its worker still pushes the item's outcome, the outcome
\* is reported, the remaining items are still taken, and the run ends; a
\* failed store write leaves no new record for the domain.
C14_FailureNotFatal ==
    /\ []C14_Safe
    /\ <>Terminated
    /\ [](Terminated =>
            \A i \in Items :
              /\ hist[i].deq = 1
              /\ Failed(i) => (hist[i].pushed = 1 /\ Reported(i)))

\* The INSERT of the first item failed: it has no record, its outcome was
\* reported, and the worker went on to probe and report the second item.
C14_Witness ==
    /\ Terminated /\ parallel = 1 /\ Len(domains) = 2 /\ DupFree
    /\ hist[1].upsert = "fail" /\ hist[1].pushed = 1 /\ Reported(1)
    /\ ~Has(store, Name(1))
    /\ Probed(2) /\ hist[2].pushed = 1 /\ Reported(2)

KnownTexts == {"already known (has_oidc=true)", "already known (has_oidc=false)"}

\* The 'already known' lines printed for domain d, and its items whose lookup hit.
KnownPrinted(d) ==
    Cardinality({ k \in 1..Len(stdout) :
                    stdout[k].domain = d /\ stdout[k].text \in KnownTexts })
Hits(d) == { i \in Occurrences(d) : hist[i].lookup = "hit" }

\* An item whose lookup found a record is never probed, upserted, appended
\* or pushed, and 'already known' lines are printed for such items only.
C15_Safe ==
    /\ \A i \in Items :
         hist[i].lookup = "hit" =>
           /\ ~Probed(i)
           /\ hist[i].upsert = "none"
           /\ hist[i].append = "none"
           /\ hist[i].pushed = 0
    /\ \A d \in Domains :
         /\ KnownPrinted(d) <= Cardinality(Hits(d))
         /\ Terminated => KnownPrinted(d) = Cardinality(Hits(d))

\* The steps a worker takes into and out of the 'already known' branch leave
\* the store, the output file and the result stream as they are.
C15_Frame ==
    \A w \in Workers :
      (pc'[w] # pc[w] /\ (pc[w] = "known" \/ pc'[w] = "known")) =>
        UNCHANGED << store, file, resultChan >>

\* C15: whenever a worker's lookup of a dequeued domain finds a record, the
\* worker prints 'already known' itself and, for that item, issues no probe,
\* performs no upsert, appends nothing to the output file and pushes nothing
\* onto the result stream; store, file and result stream stay unchanged.
C15_ShortCircuit ==
    /\ []C15_Safe
    /\ [][C15_Frame]_vars

\* A run over one known domain ended with its 'already known' line only.
C15_Witness ==
    /\ Terminated /\ Len(domains) = 1
    /\ hist[1].lookup = "hit"
    /\ stdout = << KnownLine(Name(1), store0[Name(1)]) >>
    /\ store = store0 /\ file = file0

\* The steps of item i have happened in the worker's order so far.
InOrder(i) ==
    /\ Probed(i) => hist[i].lookup \in {"miss", "fail"}
    /\ hist[i].upsert # "none" => (Probed(i) /\ hist[i].class # "TimedOut")
    /\ hist[i].append # "none" =>
         (hist[i].upsert # "none" /\ hist[i].class = "Found" /\ outFile # "")
    /\ hist[i].pushed >= 1 =>
         /\ Probed(i)
         /\ hist[i].class # "TimedOut" => hist[i].upsert # "none"
         /\ (hist[i].class = "Found" /\ outFile # "") => hist[i].append # "none"

\* C16: for each item the worker does lookup, then probe, then (non-timeout)
\* the upsert, then (Found, with an output file) the append, then the push;
\* hence for every non-timeout line the Reporter has printed for a domain the
\* upsert of a pushed outcome of that class has been executed, and for a
\* Found line the append as well.
C16_ItemOrder ==
    /\ \A i \in Items : InOrder(i)
    /\ \A k \in 1..Len(stdout) :
         stdout[k].text \in {"OIDC endpoint found", "no OIDC endpoint"} =>
           \E i \in Occurrences(stdout[k].domain) :
             /\ hist[i].pushed = 1
             /\ ExpectedText(hist[i].class) = stdout[k].text
             /\ hist[i].upsert # "none"
             /\ (hist[i].class = "Found" /\ outFile # "") => hist[i].append # "none"

\* The Reporter printed a Found line whose upsert and append were done before.
C16_Witness ==
    /\ Len(stdout) >= 1
    /\ stdout[1].text = "OIDC endpoint found"
    /\ stdout[1].domain = Name(1)
    /\ outFile # ""
    /\ hist[1].lookup = "miss" /\ hist[1].class = "Found"
    /\ hist[1].upsert = "ok" /\ hist[1].append = "ok" /\ hist[1].pushed = 1
    /\ Has(store, Name(1))
    /\ Appended = << CanonicalLine(Name(1)) >>

\* The lines of the outcomes pushed so far, in the order of the input list.
RECURSIVE PushedFrom(_)
PushedFrom(i) ==
    IF i > Len(domains) THEN << >>
    ELSE (IF hist[i].pushed = 1
            THEN << [domain |-> Name(i), text |-> ExpectedText(hist[i].class)] >>
            ELSE << >>) \o PushedFrom(i + 1)

\* The lines the Reporter printed, followed by those of the outcomes waiting
\* in the result stream: the order in which the outcomes were pushed.
IsReporterLine(l) == l.text \in ReporterTexts
PushOrder ==
    SelectSeq(stdout, IsReporterLine)
      \o [k \in 1..Len(resultChan) |-> ReportLine(resultChan[k])]

\* C17: with one worker the outcomes are pushed onto the result stream, and
\* printed by the Reporter, in the order of their domains in the input list.
\* (That another order is reachable with two workers is C17_Reordered.)
C17_SequentialOrder ==
    parallel = 1 => PushOrder = PushedFrom(1)

\* Two workers, two probed domains: the Reporter printed the outcome of the
\* second domain before that of the first.
C17_Reordered ==
    /\ parallel = 2 /\ Len(domains) = 2 /\ DupFree
    /\ hist[1].pushed = 1 /\ hist[2].pushed = 1
    /\ Len(stdout) = 2
    /\ stdout[1].domain = Name(2) /\ IsReporterLine(stdout[1])
    /\ stdout[2].domain = Name(1) /\ IsReporterLine(stdout[2])
    /\ PushOrder # PushedFrom(1)

\* C18: the outcomes ever pushed onto the result stream never outnumber the
\* input domains, which is the stream's capacity; whenever a worker is about
\* to push, fewer outcomes than that have been pushed in all, so the stream
\* is not full and the push can be taken at once, whatever the Reporter has
\* consumed.
C18_PushNeverBlocks ==
    /\ \A i \in Items : hist[i].pushed <= 1
    /\ TotalPushed <= Len(domains)
    /\ Len(resultChan) <= TotalPushed
    /\ \A w \in Workers :
         pc[w] = "push" =>
           /\ TotalPushed < Len(domains)
           /\ Len(resultChan) < Len(domains)
           /\ ENABLED SendResult(w)

\* Every outcome but one is pushed and none is consumed: the stream has one
\* free slot and a worker is about to push the last outcome.
C18_Witness ==
    /\ Len(domains) = 2
    /\ Len(resultChan) = 1
    /\ ReporterLines = 0
    /\ \E w \in Workers : pc[w] = "push"

\* Upserts happen only for items whose own lookup did not find a record, and
\* every record gained is for a domain of the input list, written by an upsert.
UpsertsOnlyUnknown ==
    /\ \A i \in Items : hist[i].upsert # "none" => hist[i].lookup \in {"miss", "fail"}
    /\ \A d \in DOMAIN store \ DOMAIN store0 :
         \E i \in Occurrences(d) : hist[i].upsert = "ok"

KnownLines ==
    Cardinality({ k \in 1..Len(stdout) : stdout[k].text \in KnownTexts })

\* The report lines printed for domain d, of either kind.
LinesFor(d) ==
    Cardinality({ k \in 1..Len(stdout) : stdout[k].domain = d })

\* C20: when a batch run has terminated every item has produced exactly one
\* report line, an 'already known' line of its worker or the Reporter's line
\* for its pushed outcome, so the 'already known' lines plus the outcomes
\* pushed onto the result stream number the input domains.
C20_ReportConservation ==
    Terminated =>
      /\ \A i \in Items :
           \/ hist[i].lookup = "hit" /\ hist[i].pushed = 0
           \/ hist[i].lookup \in {"miss", "fail"} /\ hist[i].pushed = 1
      /\ KnownLines = Cardinality({ i \in Items : hist[i].lookup = "hit" })
      /\ ReporterLines = TotalPushed
      /\ KnownLines + TotalPushed = Len(domains)
      /\ Len(stdout) = Len(domains)
      /\ \A d \in Domains : LinesFor(d) = Cardinality(Occurrences(d))

\* A run over a known and an unknown domain ended with one line of each kind.
C20_Witness ==
    /\ Terminated /\ Len(domains) = 2 /\ DupFree
    /\ hist[1].lookup = "hit" /\ hist[2].lookup = "miss" /\ hist[2].pushed = 1
    /\ KnownLines = 1 /\ ReporterLines = 1
    /\ LinesFor(Name(1)) = 1 /\ LinesFor(Name(2)) = 1

====
